---- MODULE Spec2Model ----
(***************************************************************************)
(* A model of the arena allocator of src/src/arena.rs: one reserved        *)
(* address range, a bump pointer, pages committed on demand in batches of  *)
(* PAGES_PER_COMMIT pages, and a full reset (free_all).                    *)
(*                                                                         *)
(* Addresses are byte addresses.  The operating system's page state is     *)
(* the set `committed` of the pages of the reservation that are            *)
(* read/write accessible; pages outside the reservation belong to the     *)
(* rest of the process and are not tracked.                                *)
(***************************************************************************)
EXTENDS Integers, Naturals, Sequences, FiniteSets, TLC

(* ------------------------------------------------------------------ *)
(* Machine and operating system                                        *)
(* ------------------------------------------------------------------ *)

\* Width of usize in the model.  The program's usize has 64 bits; the model
\* keeps the arithmetic of ceil_align at a width TLC's integers can hold.
\* Every address the model explores is far below 2^usize_bits.
usize_bits == 16

usize_mod == 2 ^ usize_bits

\* `x as usize`: the value reduced to the width of usize.
as_usize(x) == x % usize_mod

\* The page size the operating system reports (sysconf / GetSystemInfo).
\* Real systems report 4096 or more; the model scales the page down, which
\* keeps every relation between pages, commit batches and alignments.
os_page_size == 4

PAGES_PER_COMMIT == 16

\* Arena::alloc_granularity
alloc_granularity == os_page_size * PAGES_PER_COMMIT

(* ------------------------------------------------------------------ *)
(* Bounds of the exploration                                           *)
(* ------------------------------------------------------------------ *)

\* No allocation is explored whose end lies above this address.
MaxAddr == 200

\* Allocations explored between two resets.
MaxLive == 3

\* Resets explored.
MaxResets == 2

\* The operating systems whose primitives differ in what the model observes;
\* mod unix is modelled with the behaviour of Linux.
Platforms == {"linux", "windows"}

\* Addresses vm_reserve may return: page aligned, and either on a boundary of
\* the commit granularity, one page after it, or one page before the next.
Bases == {64, 68, 124}

\* Arguments of Arena::new: less than a page, exactly 16 pages, and one byte
\* more than 16 pages.
Capacities == {1, 64, 65}

\* (size_of, align_of) of the element types allocated: a zero-sized type,
\* u8 and u32.  size_of is always a multiple of align_of.
Layouts == { [size |-> 0, align |-> 1],
             [size |-> 1, align |-> 1],
             [size |-> 4, align |-> 4] }

\* ceil_align is called on its own with values up to MaxValue and
\* alignments 1, 2, 4, ... up to 2^MaxAlignLog.
MaxValue == 40

MaxAlignLog == 4

Aligns == { 2 ^ k : k \in 0 .. MaxAlignLog }

\* Element types of an ArenaVec: those of Layouts, and a type aligned to
\* more than a page.
ElemLayouts == Layouts \cup { [size |-> 8, align |-> 8] }

\* The values stored in an ArenaVec.
Values == {1, 2}

\* Indices looked up in an ArenaVec.
MaxIndex == 3

\* Element counts passed to alloc_slice.
Counts == {0, 16, 17}

\* The longest code tokenize is called on, in bytes.
MaxLen == 4

\* The bytes code is made of: a line break, a space, a quote, a backslash,
\* two letters (of the keyword "if"), a digit, and two operators, of which
\* one pair starts a comment and the other is the point of a number.
Alphabet == {"\n", " ", "\"", "\\", "i", "f", "1", "/", "."}

(* ------------------------------------------------------------------ *)
(* Pointer arithmetic                                                  *)
(* ------------------------------------------------------------------ *)

\* Bitwise and of two naturals below 2^n.
RECURSIVE BitAnd(_, _, _)
BitAnd(a, b, n) ==
    IF n = 0 THEN 0
    ELSE (a % 2) * (b % 2) + 2 * BitAnd(a \div 2, b \div 2, n - 1)

\* ceil_align rounding down instead of up.
ceil_align_down(value, to) == value - (value % to)

\* ceil_align leaving the value as it is.
ceil_align_none(value, to) == value

\* ceil_align: (value + (-value & (to - 1))) in two's complement.
ceil_align(value, to) ==
    as_usize(value + BitAnd(as_usize(0 - value), as_usize(to - 1), usize_bits))

\* ceil_align_ptr: ceil_align on the address of the pointer.
ceil_align_ptr(ptr, to) == ceil_align(ptr, to)

\* ptr.byte_add(count)
byte_add(ptr, count) == ptr + count

\* a.offset_from(b) as usize, for byte pointers
offset_from(a, b) == as_usize(a - b)

(* ------------------------------------------------------------------ *)
(* State                                                               *)
(* ------------------------------------------------------------------ *)

VARIABLES
    platform,           \* the OS the program is built for
    base_addr,          \* Arena.base_addr
    end_addr,           \* Arena.end_addr
    uncommitted_addr,   \* Arena.uncommitted_addr (the spec's committed_boundary)
    bump_addr,          \* Arena.bump_addr
    committed,          \* pages of the reservation that are read/write
    vm_call,            \* the request the last operation made to the OS
    status,             \* "running", or "segv" after a write to an inaccessible page
    last_op,            \* the last operation: its size and alignment arguments,
                        \* the address alloc_region returned in it, and whether
                        \* the operation stored to the region it returned
    live,               \* the regions alloc_region returned since the last reset
    first_alloc,        \* the arena's very first allocation
    resets,             \* number of free_all calls so far
    ca_value,           \* ceil_align: the argument value
    ca_to,              \* ceil_align: the argument to
    ca_result,          \* ceil_align: the value returned, NoResult before the call
    elem,               \* ArenaVec<T>: size_of and align_of of T
    mem,                \* the bytes stored so far: address -> << value, byte index >>
    appended,           \* the values add stored since the last clear, in order
    lookup,             \* the last get, get_mut, index or index_mut and its result
    code,               \* tokenize: the argument code, a sequence of bytes
    overflow_checks,    \* tokenize: whether the build checks integer overflow
    tokens              \* tokenize: how the call ended, NoTokens before the call

\* The state of an Arena and of the pages of its reservation.
arena_vars == << platform, base_addr, end_addr, uncommitted_addr, bump_addr,
                 committed, vm_call, status, last_op, live, first_alloc, resets >>

\* The state of a call of ceil_align made on its own.
align_vars == << ca_value, ca_to, ca_result >>

\* The state of an ArenaVec beyond that of its arena.
vec_vars == << elem, mem, appended, lookup >>

\* The state of a call of tokenize.
tok_vars == << code, overflow_checks, tokens >>

vars == << arena_vars, align_vars, vec_vars, tok_vars >>

NoElem == [size |-> 0, align |-> 0]

\* Memory nothing has been stored to.
NoMem == [a \in {} |-> << 0, 0 >>]

NoLookup == [op |-> "none", idx |-> 0, kind |-> "none", addr |-> 0, value |-> 0]

\* No ArenaVec exists.
VecIdle == elem = NoElem /\ mem = NoMem /\ appended = << >> /\ lookup = NoLookup

NoResult == 0 - 1

\* No call of ceil_align on its own is under way.
AlignIdle == ca_value = 0 /\ ca_to = 1 /\ ca_result = NoResult

NoTokens == [outcome |-> "none"]

\* No call of tokenize is under way.
TokIdle == code = << >> /\ overflow_checks = FALSE /\ tokens = NoTokens

NoCall == [op |-> "none", addr |-> 0, size |-> 0]

\* first_alloc before any allocation; resets is the number of resets that
\* preceded the allocation.
NoAlloc == [addr |-> 0, align |-> 0, resets |-> 0]

(* ------------------------------------------------------------------ *)
(* The platform's virtual memory primitive                             *)
(* ------------------------------------------------------------------ *)

\* Pages are numbered by address \div os_page_size.
ReservedPages ==
    { p \in 0 .. (MaxAddr \div os_page_size) + PAGES_PER_COMMIT :
        base_addr <= p * os_page_size /\ p * os_page_size < end_addr }

\* The pages of the reservation with a byte in [addr, addr + size).
PagesIn(addr, size) ==
    { p \in ReservedPages :
        p * os_page_size < addr + size /\ (p + 1) * os_page_size > addr }

\* The range [addr, addr + size) lies inside the reservation.
InReservation(addr, size) ==
    base_addr <= addr /\ addr + size <= end_addr

\* Whether the OS carries out a request on [addr, addr + size).  A request
\* inside the reservation is carried out.  One that leaves the reservation
\* is outside the primitive's contract: mprotect changes the pages it finds
\* mapped, so those of the reservation, and reports an error for the rest;
\* VirtualAlloc and VirtualFree refuse the whole request.  The code ignores
\* the result either way.
CarriedOut(addr, size) ==
    InReservation(addr, size) \/ platform = "linux"

\* vm_commit: mprotect(PROT_READ | PROT_WRITE) / VirtualAlloc(MEM_COMMIT)
vm_commit(pages, addr, size) ==
    IF CarriedOut(addr, size) THEN pages \cup PagesIn(addr, size) ELSE pages

\* vm_uncommit: mprotect(PROT_NONE) / VirtualFree(MEM_DECOMMIT).  VirtualFree
\* given the base of the reservation and size 0 decommits all of it.
vm_uncommit(pages, addr, size) ==
    IF platform = "windows" /\ addr = base_addr /\ size = 0 THEN {}
    ELSE IF CarriedOut(addr, size) THEN pages \ PagesIn(addr, size)
    ELSE pages

\* vm_reserve: the addresses the reservation may start at, no page of it
\* accessible (PROT_NONE / MEM_RESERVE with PAGE_NOACCESS).  mmap returns a
\* page-aligned address; VirtualAlloc one aligned to the allocation
\* granularity of Windows, which is 16 pages of 4 KiB.
vm_reserve(os, size_aligned) ==
    IF os = "windows"
    THEN { b \in Bases : b % (16 * os_page_size) = 0 }
    ELSE Bases

(* ------------------------------------------------------------------ *)
(* Arena                                                               *)
(* ------------------------------------------------------------------ *)

\* Arena::new
Arena_new ==
    \E os \in Platforms, addr_space_size \in Capacities :
        LET size_aligned == ceil_align(addr_space_size, os_page_size) IN
        \E reserved \in vm_reserve(os, size_aligned) :
            /\ platform = os
            /\ base_addr = reserved
            /\ end_addr = byte_add(reserved, size_aligned)
            /\ uncommitted_addr = reserved
            /\ bump_addr = reserved
            /\ committed = {}
            /\ vm_call = NoCall
            /\ status = "running"
            /\ last_op = [op |-> "new", addr |-> 0, size |-> addr_space_size,
                          align |-> 1, written |-> FALSE]
            /\ live = << >>
            /\ first_alloc = NoAlloc
            /\ resets = 0

\* alloc_region returning the aligned base of the arena on every call.
alloc_region_from_base(size, align) ==
    LET addr == ceil_align_ptr(base_addr, align)
        next_bump_addr == byte_add(bump_addr, size)
    IN  IF next_bump_addr >= uncommitted_addr
        THEN LET uncommit_end_addr == ceil_align_ptr(next_bump_addr, alloc_granularity)
                 commit_size == offset_from(uncommit_end_addr, uncommitted_addr)
             IN  [ addr |-> addr,
                   bump |-> next_bump_addr,
                   uncommitted |-> uncommit_end_addr,
                   call |-> [op |-> "commit", addr |-> uncommitted_addr,
                             size |-> commit_size] ]
        ELSE [ addr |-> addr,
               bump |-> next_bump_addr,
               uncommitted |-> uncommitted_addr,
               call |-> NoCall ]

\* alloc_region committing on every call, whether or not the allocation
\* reaches uncommitted_addr.
alloc_region_always_commit(size, align) ==
    LET addr == ceil_align_ptr(bump_addr, align)
        next_bump_addr == byte_add(addr, size)
        uncommit_end_addr == ceil_align_ptr(next_bump_addr, alloc_granularity)
        commit_size == offset_from(uncommit_end_addr, uncommitted_addr)
    IN  [ addr |-> addr,
          bump |-> next_bump_addr,
          uncommitted |-> uncommit_end_addr,
          call |-> [op |-> "commit", addr |-> uncommitted_addr,
                    size |-> commit_size] ]

\* Arena::alloc_region: the address returned, the new bump_addr and
\* uncommitted_addr, and the commit request made (NoCall when none is).
\* The capacity check against end_addr is commented out in the source.
alloc_region(size, align) ==
    LET addr == ceil_align_ptr(bump_addr, align)
        next_bump_addr == byte_add(addr, size)
    IN  IF next_bump_addr >= uncommitted_addr
        THEN LET uncommit_end_addr == ceil_align_ptr(next_bump_addr, alloc_granularity)
                 commit_size == offset_from(uncommit_end_addr, uncommitted_addr)
             IN  [ addr |-> addr,
                   bump |-> next_bump_addr,
                   uncommitted |-> uncommit_end_addr,
                   call |-> [op |-> "commit", addr |-> uncommitted_addr,
                             size |-> commit_size] ]
        ELSE [ addr |-> addr,
               bump |-> next_bump_addr,
               uncommitted |-> uncommitted_addr,
               call |-> NoCall ]

\* The outcomes of writing size bytes at addr, given the accessible pages:
\* TRUE when the write succeeds, FALSE when it faults.  A byte of the
\* reservation is writable exactly when its page is committed; memory outside
\* the reservation is not the arena's, and may or may not be writable.
WriteOutcomes(pages, addr, size) ==
    IF size = 0 THEN {TRUE}
    ELSE IF PagesIn(addr, size) \ pages # {} THEN {FALSE}
    ELSE IF ~ InReservation(addr, size) THEN BOOLEAN
    ELSE {TRUE}

\* The part of an allocation shared by alloc and alloc_slice: r is the
\* result of alloc_region, write tells whether the caller stores to the region.
Allocate(name, r, size, align, write) ==
    /\ status = "running"
    /\ Len(live) < MaxLive
    /\ r.bump <= MaxAddr
    /\ LET pages == IF r.call.op = "commit"
                     THEN vm_commit(committed, r.call.addr, r.call.size)
                     ELSE committed
       IN  /\ committed' = pages
           /\ \E ok \in (IF write THEN WriteOutcomes(pages, r.addr, size) ELSE {TRUE}) :
                  status' = IF ok THEN "running" ELSE "segv"
    /\ uncommitted_addr' = r.uncommitted
    /\ bump_addr' = r.bump
    /\ vm_call' = r.call
    /\ last_op' = [op |-> name, addr |-> r.addr, size |-> size, align |-> align,
                   written |-> write]
    /\ live' = Append(live, [addr |-> r.addr, size |-> size, align |-> align])
    /\ first_alloc' = IF first_alloc = NoAlloc
                      THEN [addr |-> r.addr, align |-> align, resets |-> resets]
                      ELSE first_alloc
    /\ UNCHANGED << platform, base_addr, end_addr, resets >>

\* Arena::alloc::<T>(value): alloc_region, then ptr.write(value).
alloc ==
    \E T \in Layouts :
        Allocate("alloc", alloc_region(T.size, T.align), T.size, T.align, TRUE)

\* Arena::alloc_slice::<T>(size): alloc_region only; nothing is written.
alloc_slice ==
    \E T \in Layouts, n \in Counts :
        Allocate("alloc_slice", alloc_region(n * T.size, T.align),
                 n * T.size, T.align, FALSE)

\* free_all leaving bump_addr where it is.
free_all_keep_bump ==
    /\ status = "running"
    /\ resets < MaxResets
    /\ LET uncommitted_local == ceil_align_ptr(bump_addr, alloc_granularity)
           uncommit_size == offset_from(uncommitted_local, base_addr)
           call == [op |-> "uncommit", addr |-> base_addr, size |-> uncommit_size]
       IN  /\ committed' = vm_uncommit(committed, base_addr, uncommit_size)
           /\ vm_call' = call
    /\ last_op' = [op |-> "free_all", addr |-> 0, size |-> 0, align |-> 1,
                   written |-> FALSE]
    /\ live' = << >>
    /\ resets' = resets + 1
    /\ UNCHANGED << platform, base_addr, end_addr, uncommitted_addr, bump_addr,
                    status, first_alloc >>

\* Arena::free_all: uncommit from base_addr to bump_addr rounded up to the
\* commit granularity, then rewind bump_addr.  The field uncommitted_addr
\* is not assigned: only a local of that name is computed.
free_all ==
    /\ status = "running"
    /\ resets < MaxResets
    /\ LET uncommitted_local == ceil_align_ptr(bump_addr, alloc_granularity)
           uncommit_size == offset_from(uncommitted_local, base_addr)
           call == [op |-> "uncommit", addr |-> base_addr, size |-> uncommit_size]
       IN  /\ committed' = vm_uncommit(committed, base_addr, uncommit_size)
           /\ vm_call' = call
    /\ bump_addr' = base_addr
    /\ last_op' = [op |-> "free_all", addr |-> 0, size |-> 0, align |-> 1,
                   written |-> FALSE]
    /\ live' = << >>
    /\ resets' = resets + 1
    /\ UNCHANGED << platform, base_addr, end_addr, uncommitted_addr, status,
                    first_alloc >>

\* An arena used through alloc, alloc_slice and free_all.
Init == Arena_new /\ AlignIdle /\ VecIdle /\ TokIdle

Next ==
    \/ alloc /\ UNCHANGED << align_vars, vec_vars, tok_vars >>
    \/ alloc_slice /\ UNCHANGED << align_vars, vec_vars, tok_vars >>
    \/ free_all /\ UNCHANGED << align_vars, vec_vars, tok_vars >>

Spec == Init /\ [][Next]_vars

(* ------------------------------------------------------------------ *)
(* ceil_align called on its own                                        *)
(* ------------------------------------------------------------------ *)

\* No arena exists.
ArenaIdle ==
    /\ platform = "linux"
    /\ base_addr = 0
    /\ end_addr = 0
    /\ uncommitted_addr = 0
    /\ bump_addr = 0
    /\ committed = {}
    /\ vm_call = NoCall
    /\ status = "running"
    /\ last_op = [op |-> "none", addr |-> 0, size |-> 0, align |-> 1,
                  written |-> FALSE]
    /\ live = << >>
    /\ first_alloc = NoAlloc
    /\ resets = 0

AlignInit ==
    /\ ArenaIdle
    /\ VecIdle
    /\ TokIdle
    /\ ca_value \in 0 .. MaxValue
    /\ ca_to \in Aligns
    /\ ca_result = NoResult

\* The call ceil_align(value, to).
ceil_align_call ==
    /\ ca_result = NoResult
    /\ ca_result' = ceil_align(ca_value, ca_to)
    /\ UNCHANGED << arena_vars, vec_vars, tok_vars, ca_value, ca_to >>

AlignNext == ceil_align_call

SpecAlign == AlignInit /\ [][AlignNext]_vars

(* ------------------------------------------------------------------ *)
(* ArenaVec                                                            *)
(* ------------------------------------------------------------------ *)

\* What a read finds where no whole value was stored.
Garbage == 0

\* ptr.write(value): the bytes of value stored at addr .. addr + size - 1.
write(m, addr, size, value) ==
    [ a \in DOMAIN m \cup (addr .. addr + size - 1) |->
        IF a \in addr .. addr + size - 1 THEN << value, a - addr >> ELSE m[a] ]

\* The value of type T a reference to addr refers to.
read(m, addr, size) ==
    IF \E v \in Values : \A k \in 0 .. size - 1 :
            addr + k \in DOMAIN m /\ m[addr + k] = << v, k >>
    THEN CHOOSE v \in Values : \A k \in 0 .. size - 1 :
            addr + k \in DOMAIN m /\ m[addr + k] = << v, k >>
    ELSE Garbage

\* The contents left after an uncommit request: VirtualFree(MEM_DECOMMIT)
\* discards the contents of the pages it decommits, mprotect keeps them.
discard(m, addr, size) ==
    IF platform = "windows" /\ addr = base_addr /\ size = 0 THEN NoMem
    ELSE IF platform = "windows" /\ CarriedOut(addr, size)
    THEN [ a \in { b \in DOMAIN m : (b \div os_page_size) \notin PagesIn(addr, size) }
             |-> m[a] ]
    ELSE m

\* ArenaVec::len divides by size_of::<T>(), which panics for a zero-sized T.
len_panics == elem.size = 0

\* len returning the number of bytes instead of the number of elements.
len_in_bytes == IF len_panics THEN 0 - 1 ELSE bump_addr - base_addr

\* ArenaVec::len, where it returns.
len == IF len_panics THEN 0 - 1 ELSE (bump_addr - base_addr) \div elem.size

\* ArenaVec::as_slice, where len returns: the elements a slice of len()
\* values of T starting at base_addr holds.
as_slice ==
    IF len_panics THEN << >>
    ELSE [ i \in 1 .. len |-> read(mem, base_addr + (i - 1) * elem.size, elem.size) ]

\* ArenaVec::new
ArenaVec_new ==
    /\ Arena_new
    /\ elem \in ElemLayouts
    /\ mem = NoMem
    /\ appended = << >>
    /\ lookup = NoLookup

\* ArenaVec::add: self.arena.alloc(value).
add ==
    \E value \in (IF elem.size = 0 THEN {0} ELSE Values) :
        LET r == alloc_region(elem.size, elem.align) IN
        /\ Allocate("alloc", r, elem.size, elem.align, TRUE)
        /\ IF status' = "running"
           THEN /\ mem' = write(mem, r.addr, elem.size, value)
                /\ appended' = Append(appended, value)
           ELSE UNCHANGED << mem, appended >>
        /\ lookup' = NoLookup
        /\ UNCHANGED elem

\* ArenaVec::clear: self.arena.free_all().
clear ==
    /\ free_all
    /\ mem' = discard(mem, vm_call'.addr, vm_call'.size)
    /\ appended' = << >>
    /\ lookup' = NoLookup
    /\ UNCHANGED elem

\* checked refusing only the indices above len().
checked_above(idx) ==
    IF len_panics THEN [kind |-> "panic", addr |-> 0, value |-> 0]
    ELSE IF idx > len THEN [kind |-> "none", addr |-> 0, value |-> 0]
    ELSE [ kind |-> "some",
           addr |-> byte_add(base_addr, idx * elem.size),
           value |-> read(mem, byte_add(base_addr, idx * elem.size), elem.size) ]

\* The result of a lookup at idx that is bounds-checked against len():
\* a panic where len panics, nothing where idx >= len(), and else a reference
\* to base_addr + idx * size_of::<T>().
checked(idx) ==
    IF len_panics THEN [kind |-> "panic", addr |-> 0, value |-> 0]
    ELSE IF idx >= len THEN [kind |-> "none", addr |-> 0, value |-> 0]
    ELSE [ kind |-> "some",
           addr |-> byte_add(base_addr, idx * elem.size),
           value |-> read(mem, byte_add(base_addr, idx * elem.size), elem.size) ]

\* A lookup returns res: nothing of the arena changes; a panic ends the run.
Lookup(name, idx, res) ==
    /\ status = "running"
    /\ lookup' = [op |-> name, idx |-> idx, kind |-> res.kind, addr |-> res.addr,
                  value |-> res.value]
    /\ status' = IF res.kind = "panic" THEN "panic" ELSE status
    /\ UNCHANGED << platform, base_addr, end_addr, uncommitted_addr, bump_addr,
                    committed, vm_call, last_op, live, first_alloc, resets,
                    elem, mem, appended >>

\* ArenaVec::get
get == \E idx \in 0 .. MaxIndex : Lookup("get", idx, checked(idx))

\* ArenaVec::get_mut
get_mut == \E idx \in 0 .. MaxIndex : Lookup("get_mut", idx, checked(idx))

\* Index::index: the value get returns, a panic where get returns None.
index ==
    \E idx \in 0 .. MaxIndex :
        LET res == checked(idx) IN
        Lookup("index", idx,
               IF res.kind = "none" THEN [res EXCEPT !.kind = "panic"] ELSE res)

\* IndexMut::index_mut: a panic where index >= len(), else a reference to
\* base_addr + index * size_of::<T>().
index_mut ==
    \E idx \in 0 .. MaxIndex :
        Lookup("index_mut", idx,
               IF len_panics \/ idx >= len
               THEN [kind |-> "panic", addr |-> 0, value |-> 0]
               ELSE [ kind |-> "some",
                      addr |-> byte_add(base_addr, idx * elem.size),
                      value |-> read(mem, byte_add(base_addr, idx * elem.size),
                                     elem.size) ])

VecInit == ArenaVec_new /\ AlignIdle /\ TokIdle

VecNext ==
    \/ add /\ UNCHANGED << align_vars, tok_vars >>
    \/ clear /\ UNCHANGED << align_vars, tok_vars >>
    \/ get /\ UNCHANGED << align_vars, tok_vars >>
    \/ get_mut /\ UNCHANGED << align_vars, tok_vars >>
    \/ index /\ UNCHANGED << align_vars, tok_vars >>
    \/ index_mut /\ UNCHANGED << align_vars, tok_vars >>

SpecVec == VecInit /\ [][VecNext]_vars

(* ------------------------------------------------------------------ *)
(* tokenize                                                            *)
(* ------------------------------------------------------------------ *)

\* Offsets into code count from 0 as in the source; input is the part of
\* code from the offset pos on, and input[0] is the byte code[pos + 1].

\* u8::is_ascii_whitespace: space, tab, line feed, form feed, carriage return.
is_ascii_whitespace(c) == c \in {" ", "\t", "\n", "\f", "\r"}

\* u8::is_ascii_digit
is_ascii_digit(c) == c \in {"0", "1", "2", "3", "4", "5", "6", "7", "8", "9"}

\* u8::is_ascii_alphabetic
is_ascii_alphabetic(c) ==
    c \in {"a", "b", "c", "d", "e", "f", "g", "h", "i", "j", "k", "l", "m",
           "n", "o", "p", "q", "r", "s", "t", "u", "v", "w", "x", "y", "z",
           "A", "B", "C", "D", "E", "F", "G", "H", "I", "J", "K", "L", "M",
           "N", "O", "P", "Q", "R", "S", "T", "U", "V", "W", "X", "Y", "Z"}

\* u8::is_ascii_alphanumeric
is_ascii_alphanumeric(c) == is_ascii_alphabetic(c) \/ is_ascii_digit(c)

\* <[u8]>::starts_with
starts_with(input, prefix) ==
    Len(input) >= Len(prefix) /\ SubSeq(input, 1, Len(prefix)) = prefix

\* mod kw, in the order the keywords are tried: longest first.
kw ==
    << [text |-> << "c", "o", "n", "t", "i", "n", "u", "e" >>, type |-> "Continue"],
       [text |-> << "p", "a", "c", "k", "e", "d" >>, type |-> "Packed"],
       [text |-> << "s", "t", "r", "u", "c", "t" >>, type |-> "Struct"],
       [text |-> << "u", "n", "i", "o", "n" >>, type |-> "Union"],
       [text |-> << "d", "e", "f", "e", "r" >>, type |-> "Defer"],
       [text |-> << "w", "h", "i", "l", "e" >>, type |-> "While"],
       [text |-> << "b", "r", "e", "a", "k" >>, type |-> "Break"],
       [text |-> << "e", "n", "u", "m" >>, type |-> "Enum"],
       [text |-> << "t", "h", "e", "n" >>, type |-> "Then"],
       [text |-> << "e", "l", "s", "e" >>, type |-> "Else"],
       [text |-> << "l", "o", "o", "p" >>, type |-> "Loop"],
       [text |-> << "a", "n", "d" >>, type |-> "And"],
       [text |-> << "x", "o", "r" >>, type |-> "Xor"],
       [text |-> << "n", "o", "t" >>, type |-> "Not"],
       [text |-> << "p", "u", "b" >>, type |-> "Pub"],
       [text |-> << "o", "r" >>, type |-> "Or"],
       [text |-> << "f", "n" >>, type |-> "Fn"],
       [text |-> << "i", "f" >>, type |-> "If"] >>

\* mod op, in the order the operators are tried: those of two bytes first.
op ==
    << [text |-> << "=", "=" >>, type |-> "Equals"],
       [text |-> << "!", "=" >>, type |-> "NotEquals"],
       [text |-> << "<", "=" >>, type |-> "LessEqual"],
       [text |-> << ">", "=" >>, type |-> "GreaterEqual"],
       [text |-> << ">", "-" >>, type |-> "Feather"],
       [text |-> << "-", ">" >>, type |-> "Arrow"],
       [text |-> << "<", "<" >>, type |-> "LShift"],
       [text |-> << ">", ">" >>, type |-> "RShift"],
       [text |-> << "+", "+" >>, type |-> "Incr"],
       [text |-> << "-", "-" >>, type |-> "Decr"],
       [text |-> << "*", "*" >>, type |-> "Pow"],
       [text |-> << "%" >>, type |-> "Modulo"],
       [text |-> << "<" >>, type |-> "LessThan"],
       [text |-> << ">" >>, type |-> "GreaterThan"],
       [text |-> << "&" >>, type |-> "Ampersand"],
       [text |-> << "|" >>, type |-> "Pipe"],
       [text |-> << "^" >>, type |-> "Caret"],
       [text |-> << "~" >>, type |-> "Tilde"],
       [text |-> << "+" >>, type |-> "Plus"],
       [text |-> << "-" >>, type |-> "Minus"],
       [text |-> << "*" >>, type |-> "Mul"],
       [text |-> << "/" >>, type |-> "Div"],
       [text |-> << "=" >>, type |-> "Equal"],
       [text |-> << ";" >>, type |-> "Semi"],
       [text |-> << ":" >>, type |-> "Colon"],
       [text |-> << "," >>, type |-> "Comma"],
       [text |-> << "." >>, type |-> "Dot"],
       [text |-> << "(" >>, type |-> "LParens"],
       [text |-> << ")" >>, type |-> "RParens"],
       [text |-> << "[" >>, type |-> "LBracket"],
       [text |-> << "]" >>, type |-> "RBracket"],
       [text |-> << "{" >>, type |-> "LBrace"],
       [text |-> << "}" >>, type |-> "RBrace"] >>

\* The entries of a table the text starts with; the first of them is the
\* one the chain of matches takes.
Matches(table, text) == { i \in DOMAIN table : starts_with(text, table[i].text) }

FirstMatch(table, text) ==
    table[CHOOSE i \in Matches(table, text) : \A j \in Matches(table, text) : i <= j]

\* The offset an unguarded input[0] fails at: the index is out of bounds.
OutOfBounds == 0 - 1

\* The state of the locals of tokenize when the function is entered.
tokenize_entry ==
    [pos |-> 0, line |-> 1, line_start |-> 0,
     line_breaks |-> << >>, spans |-> << >>, types |-> << >>]

\* "save line breaks": every line break at the start of input is recorded and
\* consumed, and the next line starts after it.
RECURSIVE save_line_breaks(_, _)
save_line_breaks(bcode, st) ==
    IF st.pos < Len(bcode) /\ bcode[st.pos + 1] = "\n"
    THEN save_line_breaks(bcode,
            [st EXCEPT !.line_breaks = Append(@, st.pos),
                       !.pos = st.pos + 1,
                       !.line_start = st.pos + 1,
                       !.line = @ + 1])
    ELSE st

\* "ignore whitespace": the offset of the first byte that is not whitespace.
RECURSIVE ignore_whitespace(_, _)
ignore_whitespace(bcode, pos) ==
    IF pos >= Len(bcode) THEN OutOfBounds
    ELSE IF is_ascii_whitespace(bcode[pos + 1]) THEN ignore_whitespace(bcode, pos + 1)
    ELSE pos

\* "ignore comments": the offset of the line break that ends the comment.
RECURSIVE ignore_comment(_, _)
ignore_comment(bcode, pos) ==
    IF pos >= Len(bcode) THEN OutOfBounds
    ELSE IF bcode[pos + 1] # "\n" THEN ignore_comment(bcode, pos + 1)
    ELSE pos

\* The loop of "strings", entered after the opening quote.
RECURSIVE scan_string(_, _)
scan_string(bcode, st) ==
    IF st.pos >= Len(bcode) THEN [st |-> st, is_valid |-> FALSE]
    ELSE IF starts_with(SubSeq(bcode, st.pos + 1, Len(bcode)), << "\\", "\"" >>)
    THEN scan_string(bcode, [st EXCEPT !.pos = st.pos + 2])
    ELSE IF bcode[st.pos + 1] = "\""
    THEN [st |-> [st EXCEPT !.pos = st.pos + 1], is_valid |-> TRUE]
    ELSE IF bcode[st.pos + 1] = "\n"
    THEN scan_string(bcode,
            [st EXCEPT !.line_breaks = Append(@, st.pos),
                       !.line_start = st.pos,
                       !.line = @ + 1,
                       !.pos = st.pos + 1])
    ELSE scan_string(bcode, [st EXCEPT !.pos = st.pos + 1])

\* The loop of "identifiers", entered after the first byte.
RECURSIVE scan_identifier(_, _)
scan_identifier(bcode, pos) ==
    IF pos >= Len(bcode) THEN OutOfBounds
    ELSE IF is_ascii_alphanumeric(bcode[pos + 1]) \/ bcode[pos + 1] = "_"
    THEN scan_identifier(bcode, pos + 1)
    ELSE pos

\* The loop of "numbers", entered after the first digit.
RECURSIVE scan_number(_, _, _)
scan_number(bcode, pos, has_point) ==
    IF pos >= Len(bcode) THEN OutOfBounds
    ELSE IF is_ascii_digit(bcode[pos + 1]) THEN scan_number(bcode, pos + 1, has_point)
    ELSE IF bcode[pos + 1] = "." /\ ~ has_point THEN scan_number(bcode, pos + 1, TRUE)
    ELSE pos

\* tokenize returns Tokens { code, line_breaks, spans, types }.
Returned(st) ==
    [outcome |-> "returned", line_breaks |-> st.line_breaks,
     spans |-> st.spans, types |-> st.types]

\* tokenize panics.
Panicked(message) == [outcome |-> "panicked", message |-> message]

\* push_token pushing the type and no span.
push_token_no_span(bcode, st, type, start, end, col) ==
    [st EXCEPT !.types = Append(@, type), !.pos = end]

\* types.push(type); spans.push((bcode[start..end], line, col)), the input
\* left at end.
push_token(bcode, st, type, start, end, col) ==
    [st EXCEPT !.types = Append(@, type),
               !.spans = Append(@, << SubSeq(bcode, start + 1, end), st.line, col >>),
               !.pos = end]

\* The loop of tokenize from the state st of its locals on.
RECURSIVE tokenize_loop(_, _, _)
tokenize_loop(bcode, checks, st0) ==
    IF st0.pos >= Len(bcode) THEN Returned(st0)
    ELSE
    LET st1 == save_line_breaks(bcode, st0) IN
    IF st1.pos >= Len(bcode) THEN Returned(st1)
    ELSE
    LET pos == ignore_whitespace(bcode, st1.pos) IN
    IF pos = OutOfBounds THEN Panicked("index out of bounds")
    ELSE
    LET input == SubSeq(bcode, pos + 1, Len(bcode))
        st == [st1 EXCEPT !.pos = pos]
    IN
    IF starts_with(input, << "/", "/" >>)
    THEN LET end == ignore_comment(bcode, pos + 2) IN
         IF end = OutOfBounds THEN Panicked("index out of bounds")
         ELSE tokenize_loop(bcode, checks, [st EXCEPT !.pos = end])
    ELSE IF Matches(op, input) # {}
    THEN LET o == FirstMatch(op, input) IN
         tokenize_loop(bcode, checks,
            push_token(bcode, st, o.type, pos, pos + Len(o.text),
                       pos - st.line_start))
    ELSE IF input[1] = "\""
    THEN LET s == scan_string(bcode, [st EXCEPT !.pos = pos + 1]) IN
         IF ~ s.is_valid THEN Panicked("Unfinished string")
         ELSE IF pos < s.st.line_start /\ checks
         THEN Panicked("attempt to subtract with overflow")
         ELSE tokenize_loop(bcode, checks,
                push_token(bcode, s.st, "String", pos, s.st.pos,
                           as_usize(pos - s.st.line_start)))
    ELSE IF is_ascii_alphabetic(input[1]) \/ input[1] = "_"
    THEN LET end == scan_identifier(bcode, pos + 1) IN
         IF end = OutOfBounds THEN Panicked("index out of bounds")
         ELSE LET ident_slice == SubSeq(bcode, pos + 1, end) IN
              tokenize_loop(bcode, checks,
                push_token(bcode, st,
                           IF Matches(kw, ident_slice) # {}
                           THEN FirstMatch(kw, ident_slice).type
                           ELSE "Ident",
                           pos, end, pos - st.line_start))
    ELSE IF is_ascii_digit(input[1])
    THEN LET end == scan_number(bcode, pos + 1, FALSE) IN
         IF end = OutOfBounds THEN Panicked("index out of bounds")
         ELSE tokenize_loop(bcode, checks,
                push_token(bcode, st, "Num", pos, end, pos - st.line_start))
    ELSE Panicked("Cannot parse token")

\* tokenize(code), built with or without overflow checks.
tokenize(bcode, checks) == tokenize_loop(bcode, checks, tokenize_entry)

\* The sequences of at most n bytes of Alphabet.
Inputs(n) == UNION { [1 .. k -> Alphabet] : k \in 0 .. n }

TokInit ==
    /\ ArenaIdle
    /\ AlignIdle
    /\ VecIdle
    /\ code \in Inputs(MaxLen)
    /\ overflow_checks \in BOOLEAN
    /\ tokens = NoTokens

\* The call tokenize(code).
tokenize_call ==
    /\ tokens = NoTokens
    /\ tokens' = tokenize(code, overflow_checks)
    /\ UNCHANGED << arena_vars, align_vars, vec_vars, code, overflow_checks >>

TokNext == tokenize_call

SpecTok == TokInit /\ [][TokNext]_vars

(* ------------------------------------------------------------------ *)
(* Properties                                                          *)
(* ------------------------------------------------------------------ *)

Allocated == last_op.op \in {"alloc", "alloc_slice"}

\* The byte ranges of two regions have no byte in common.
Disjoint(r1, r2) ==
    \/ r1.size = 0
    \/ r2.size = 0
    \/ r1.addr + r1.size <= r2.addr
    \/ r2.addr + r2.size <= r1.addr

\* C1: while the program runs, every byte of [base, bump) lies in the
\* reservation, in a page that is committed.
C1_LiveBytesCommitted ==
    status = "running" =>
        /\ InReservation(base_addr, bump_addr - base_addr)
        /\ PagesIn(base_addr, bump_addr - base_addr) \subseteq committed

\* C2: an allocation whose candidate end (aligned bump + size) exceeds
\* end fails fatally: the call does not return and bump stays at or below end.
C2_OverrunFailsFatally ==
    (Allocated /\ last_op.addr + last_op.size > end_addr) =>
        (status # "running" /\ bump_addr <= end_addr)

\* C3: base <= bump <= committed_boundary <= end in every state.
C3_PointerOrder ==
    /\ base_addr <= bump_addr
    /\ bump_addr <= uncommitted_addr
    /\ uncommitted_addr <= end_addr

\* C4: every commit and uncommit request covers a range inside [base, end).
C4_RequestsInsideReservation ==
    vm_call.op # "none" => InReservation(vm_call.addr, vm_call.size)

\* C5: right after a reset, bump and committed_boundary both equal base.
C5_ResetRewindsBoth ==
    last_op.op = "free_all" =>
        (bump_addr = base_addr /\ uncommitted_addr = base_addr)

\* C6: no two regions returned since the last reset (or since creation)
\* overlap.
C6_RegionsDisjoint ==
    \A i, j \in 1 .. Len(live) : i < j => Disjoint(live[i], live[j])

\* C6 witness: three non-empty regions returned since a reset, the second
\* of them starting at an address the first left unaligned for it.
C6_Witness ==
    /\ resets > 0
    /\ Len(live) = 3
    /\ \A i \in 1 .. 3 : live[i].size > 0
    /\ (live[1].addr + live[1].size) % 4 # 0
    /\ live[2].addr % 4 = 0

\* C7: the address an allocation returns is a multiple of the alignment
\* asked for.
C7_ReturnedAddressAligned ==
    Allocated => last_op.addr % last_op.align = 0

\* C7 witness: a 4-aligned allocation made when bump was not a multiple of 4.
C7_Witness ==
    /\ Allocated
    /\ last_op.align = 4
    /\ Len(live) >= 2
    /\ (live[Len(live) - 1].addr + live[Len(live) - 1].size) % 4 # 0

\* C8: right after a reset no page of the reservation is committed.
C8_ResetUncommitsAll ==
    last_op.op = "free_all" => committed = {}

\* C9: the first allocation after a reset returns the address the arena's
\* very first allocation returned, when both ask for the same alignment.
C9_SameAddressAfterReset ==
    ( /\ Allocated
      /\ Len(live) = 1
      /\ first_alloc.resets < resets
      /\ last_op.align = first_alloc.align )
    => last_op.addr = first_alloc.addr

\* C9 witness: an allocation right after a reset, with the same alignment
\* as the first allocation, after bump had moved away from base.
C9_Witness ==
    /\ Allocated
    /\ Len(live) = 1
    /\ first_alloc.resets < resets
    /\ last_op.align = first_alloc.align
    /\ last_op.size > 0
    /\ uncommitted_addr > base_addr + alloc_granularity

\* C10: an allocation never lowers committed_boundary: every step that is
\* not a reset leaves uncommitted_addr where it was or above.
C10_BoundaryMonotonic ==
    [][resets' = resets => uncommitted_addr' >= uncommitted_addr]_vars

\* C10 witness: after a reset, an allocation below the boundary the earlier
\* allocations had reached, which therefore commits nothing.
C10_Witness ==
    /\ Allocated
    /\ resets > 0
    /\ vm_call.op = "none"
    /\ bump_addr + alloc_granularity < uncommitted_addr

\* C11 as stated: committed_boundary is a multiple of the commit granularity
\* in every state, the one right after creation included.
C11_BoundaryOnGranularity ==
    uncommitted_addr % alloc_granularity = 0

\* C11 as amended: committed_boundary is base, or a multiple of the commit
\* granularity.
C11_BoundaryBaseOrOnGranularity ==
    \/ uncommitted_addr = base_addr
    \/ uncommitted_addr % alloc_granularity = 0

\* C11 witness: an arena whose base is not on the commit granularity, after
\* an allocation has moved the boundary.
C11_Witness ==
    /\ base_addr % alloc_granularity # 0
    /\ Allocated
    /\ vm_call.op = "commit"
    /\ uncommitted_addr > base_addr

\* C17: right after Arena::new(capacity), end - base is the smallest multiple
\* of the page size that is not below capacity, bump and committed_boundary
\* equal base, and no page is committed.
C17_NewReservesRoundedCapacity ==
    last_op.op = "new" =>
        /\ (end_addr - base_addr) % os_page_size = 0
        /\ end_addr - base_addr >= last_op.size
        /\ end_addr - base_addr - os_page_size < last_op.size
        /\ uncommitted_addr = base_addr
        /\ bump_addr = base_addr
        /\ committed = {}

\* C17 witness: a new arena whose requested capacity is not a whole number
\* of pages.
C17_Witness ==
    /\ last_op.op = "new"
    /\ last_op.size % os_page_size # 0
    /\ last_op.size > os_page_size

\* C18: a call of alloc or alloc_slice that returns a non-empty region has
\* stored to every byte of it.
C18_ReturnedRegionInitialized ==
    (Allocated /\ status = "running" /\ last_op.size > 0) => last_op.written

\* An allocation step returns the smallest multiple of the alignment that is
\* not below the bump it found, and leaves bump at that address plus the size.
C20_Step ==
    resets' = resets =>
        /\ last_op'.addr >= bump_addr
        /\ last_op'.addr % last_op'.align = 0
        /\ last_op'.addr - last_op'.align < bump_addr
        /\ bump_addr' = last_op'.addr + last_op'.size

\* Three u32 allocations on a fresh arena lie at base, base + 4 and base + 8.
C20_ThreeContiguous ==
    ( /\ resets = 0
      /\ Len(live) = 3
      /\ \A i \in 1 .. 3 : live[i].size = 4 /\ live[i].align = 4 )
    => \A i \in 1 .. 3 : live[i].addr = base_addr + 4 * (i - 1)

\* C20: an allocation returns aligned_bump, the smallest multiple of align
\* that is >= the bump before the call, and leaves bump = aligned_bump + size;
\* consecutive allocations whose size is a multiple of their alignment are
\* contiguous (three of them on a fresh arena start at offsets 0, size and
\* 2 * size from base).
C20_ReturnsAlignedBump ==
    [][C20_Step]_vars /\ []C20_ThreeContiguous

\* C20 witness: three u32 allocations on a fresh arena.
C20_Witness ==
    /\ resets = 0
    /\ Len(live) = 3
    /\ \A i \in 1 .. 3 : live[i].size = 4 /\ live[i].align = 4

\* C16: for v >= 0 and a power of two a, ceil_align(v, a) is at least v, is
\* a multiple of a, and is less than v + a.
C16_CeilAlign ==
    ca_result # NoResult =>
        /\ ca_result >= ca_value
        /\ ca_result % ca_to = 0
        /\ ca_result - ca_to < ca_value

\* C16 witness: ceil_align returned for a value that is not a multiple of
\* the alignment 8.
C16_Witness ==
    /\ ca_result # NoResult
    /\ ca_to = 8
    /\ ca_value % 8 # 0
    /\ ca_value > 8

\* An element type of non-zero size whose alignment is at most a page.
PlainElem == elem.size > 0 /\ elem.align <= os_page_size

\* C12 as stated: with no clear so far, after n appends that returned,
\* length() is n and as_slice() holds the n appended values in order.
C12_LenAndSliceAfterAppends ==
    (elem # NoElem /\ resets = 0 /\ status = "running") =>
        /\ ~ len_panics
        /\ len = Len(appended)
        /\ as_slice = appended

\* C12 as amended: the same for an element type of non-zero size whose
\* alignment is at most a page.
C12_LenAndSliceOfPlainElem ==
    (PlainElem /\ resets = 0 /\ status = "running") =>
        /\ len = Len(appended)
        /\ as_slice = appended

\* C12 witness: three u32 values appended, not all the same.
C12_Witness ==
    /\ elem = [size |-> 4, align |-> 4]
    /\ resets = 0
    /\ status = "running"
    /\ Len(appended) = 3
    /\ appended[1] # appended[2]

\* C13: clear() makes length() 0, and an append after a clear returns,
\* leaving length() equal to the number of appends since the clear and
\* element 0 at the arena's base address (stated for u8 and u32 elements).
C13_ClearThenAppend ==
    PlainElem =>
        /\ last_op.op = "free_all" => len = 0
        /\ (resets > 0 /\ last_op.op = "alloc") =>
              /\ status # "segv"
              /\ len = Len(appended)
              /\ live[1].addr = base_addr

\* The result a lookup must give for an element type whose len() returns.
C14_Result ==
    lookup.op # "none" =>
        /\ lookup.op \in {"get", "get_mut"} =>
              /\ lookup.idx >= Len(appended) => lookup.kind = "none"
              /\ lookup.idx < Len(appended) =>
                    /\ lookup.kind = "some"
                    /\ lookup.addr = live[lookup.idx + 1].addr
                    /\ lookup.value = appended[lookup.idx + 1]
        /\ lookup.op \in {"index", "index_mut"} =>
              /\ lookup.idx >= Len(appended) =>
                    lookup.kind = "panic" /\ status = "panic"
              /\ lookup.idx < Len(appended) =>
                    /\ lookup.kind = "some"
                    /\ lookup.addr = live[lookup.idx + 1].addr
                    /\ lookup.value = appended[lookup.idx + 1]
        /\ len = Len(appended)

\* A lookup leaves the arena, its pages and the stored bytes as they were.
C14_Frame ==
    lookup' # NoLookup =>
        UNCHANGED << base_addr, end_addr, uncommitted_addr, bump_addr,
                     committed, mem >>

\* C14 as stated: for every element type, get and get_mut return None
\* exactly when the index is >= length() and else the element at the index,
\* the indexing operators panic exactly when the index is >= length(), and no
\* lookup changes the arena.
C14_Lookups ==
    [](elem # NoElem => C14_Result) /\ [][C14_Frame]_vars

\* C14 as amended: the same for an element type of non-zero size whose
\* alignment is at most a page.
C14_LookupsOfPlainElem ==
    [](PlainElem => C14_Result) /\ [][C14_Frame]_vars

\* C14 witness: get_mut found the second of two different u32 elements.
C14_Witness ==
    /\ elem = [size |-> 4, align |-> 4]
    /\ Len(appended) = 2
    /\ appended[1] # appended[2]
    /\ lookup.op = "get_mut"
    /\ lookup.idx = 1
    /\ lookup.kind = "some"

\* An append leaves every element appended before it at its address, both
\* the one it was stored at and the one get computes, with its value.
C15_Step ==
    (resets' = resets /\ Len(live') = Len(live) + 1) =>
        \A i \in 1 .. Len(appended) :
            /\ live'[i].addr = live[i].addr
            /\ appended'[i] = appended[i]
            /\ read(mem', live[i].addr, elem.size) = read(mem, live[i].addr, elem.size)
            /\ read(mem', base_addr' + (i - 1) * elem'.size, elem'.size)
                 = read(mem, base_addr + (i - 1) * elem.size, elem.size)

\* C15: appending never changes the address or the stored value of an
\* element appended before, as long as no clear occurs.
C15_AppendKeepsElements ==
    [][C15_Step]_vars

\* C15 witness: a third u32 value appended after two different ones.
C15_Witness ==
    /\ elem = [size |-> 4, align |-> 4]
    /\ status = "running"
    /\ Len(appended) = 3
    /\ appended[1] # appended[3]
    /\ lookup = NoLookup

\* The offsets of the line breaks of code.
LineBreakOffsets == { i - 1 : i \in { j \in DOMAIN code : code[j] = "\n" } }

\* C19: on return from tokenize(code), line_breaks is sorted ascending and
\* holds the offset of every line break of code, those that follow other
\* whitespace and those inside string literals included, and nothing else.
C19_LineBreaksComplete ==
    tokens.outcome = "returned" =>
        /\ \A i \in 1 .. Len(tokens.line_breaks) - 1 :
                tokens.line_breaks[i] < tokens.line_breaks[i + 1]
        /\ { tokens.line_breaks[i] : i \in DOMAIN tokens.line_breaks }
                = LineBreakOffsets

\* The smallest multiple of the commit granularity that is not below addr.
NextOnGranularity(addr) ==
    CHOOSE m \in 0 .. addr + alloc_granularity :
        m % alloc_granularity = 0 /\ m >= addr /\ m - alloc_granularity < addr

\* An allocation step whose candidate_end (the address returned plus the
\* size) lies above the committed_boundary it found.
C21_Step ==
    (resets' = resets /\ last_op'.addr + last_op'.size > uncommitted_addr) =>
        LET new_boundary == NextOnGranularity(last_op'.addr + last_op'.size) IN
        /\ vm_call' = [op |-> "commit", addr |-> uncommitted_addr,
                       size |-> new_boundary - uncommitted_addr]
        /\ uncommitted_addr' = new_boundary
        /\ committed \subseteq committed'
        /\ \A p \in committed' \ committed :
                /\ p * os_page_size >= uncommitted_addr
                /\ (p + 1) * os_page_size <= new_boundary

\* C21: an allocation whose candidate_end exceeds committed_boundary makes
\* one commit request, for exactly [old committed_boundary, new
\* committed_boundary), the new boundary being candidate_end rounded up to a
\* multiple of the commit granularity; no page below the old boundary or
\* above the new one becomes committed in the call.
C21_CommitsTheDelta == [][C21_Step]_vars

\* C21 witness: an allocation that moved a boundary which earlier
\* allocations had already moved off base, so the request starts at the old
\* boundary and not at base.
C21_Witness ==
    /\ Allocated
    /\ vm_call.op = "commit"
    /\ vm_call.addr > base_addr
    /\ vm_call.size > 0
    /\ uncommitted_addr = vm_call.addr + vm_call.size
    /\ last_op.addr + last_op.size > vm_call.addr

\* An allocation step whose candidate_end does not lie above the
\* committed_boundary it found.
C22_Step ==
    (resets' = resets /\ last_op'.addr + last_op'.size <= uncommitted_addr) =>
        /\ vm_call'.op = "none"
        /\ uncommitted_addr' = uncommitted_addr
        /\ committed' = committed

\* C22: an allocation whose candidate_end is at or below committed_boundary,
\* the case of equality and allocations of size 0 included, makes no commit
\* request and leaves committed_boundary and the committed pages as they were.
C22_NoCommitAtOrBelowBoundary == [][C22_Step]_vars

\* The token type the branches of tokenize give to a text that is one whole
\* token: an operator's type for the operator's text, String for a text in
\* quotes, the type of the keyword match or Ident for a text that starts
\* with a letter or an underscore, Num for one that starts with a digit.
recognised(text) ==
    IF Matches(op, text) # {} /\ FirstMatch(op, text).text = text
    THEN FirstMatch(op, text).type
    ELSE IF Len(text) >= 2 /\ text[1] = "\"" /\ text[Len(text)] = "\""
    THEN "String"
    ELSE IF Len(text) >= 1 /\ (is_ascii_alphabetic(text[1]) \/ text[1] = "_")
    THEN IF Matches(kw, text) # {} THEN FirstMatch(kw, text).type ELSE "Ident"
    ELSE IF Len(text) >= 1 /\ is_ascii_digit(text[1])
    THEN "Num"
    ELSE "none"

\* C23: whenever tokenize returns, types and spans have the same length, and
\* types[i] is the token type recognised for the text of spans[i], for every
\* i: each branch has pushed one span with the type it pushed.
C23_TypesMatchSpans ==
    tokens.outcome = "returned" =>
        /\ Len(tokens.types) = Len(tokens.spans)
        /\ \A i \in DOMAIN tokens.types :
                /\ i \in DOMAIN tokens.spans
                /\ tokens.types[i] = recognised(tokens.spans[i][1])

\* C23 witness: a call that returned three tokens of three different types.
C23_Witness ==
    /\ tokens.outcome = "returned"
    /\ Len(tokens.types) = 3
    /\ Cardinality({ tokens.types[i] : i \in DOMAIN tokens.types }) = 3

\* A text of letters, digits and underscores that does not start with a digit.
IdentifierShaped(text) ==
    /\ Len(text) >= 1
    /\ is_ascii_alphabetic(text[1]) \/ text[1] = "_"
    /\ \A j \in DOMAIN text : is_ascii_alphanumeric(text[j]) \/ text[j] = "_"

\* C24: a lexeme of letters, digits and underscores that does not start with
\* a digit gets the type of a keyword if and only if its whole text is that
\* keyword; any other, one that only starts with a keyword included, is Ident.
C24_KeywordIsWholeLexeme ==
    tokens.outcome = "returned" =>
        \A i \in DOMAIN tokens.spans :
            IdentifierShaped(tokens.spans[i][1]) =>
                /\ i \in DOMAIN tokens.types
                /\ tokens.types[i] =
                        IF \E k \in DOMAIN kw : kw[k].text = tokens.spans[i][1]
                        THEN kw[CHOOSE k \in DOMAIN kw :
                                    kw[k].text = tokens.spans[i][1]].type
                        ELSE "Ident"

\* C25: tokenize never indexes an empty remaining input: no call ends in an
\* out-of-bounds failure, whatever token, comment or whitespace code ends in.
C25_NoOutOfBounds ==
    ~ (tokens.outcome = "panicked" /\ tokens.message = "index out of bounds")

====
